---- MODULE Spec2Model ----
(***************************************************************************)
(* State-machine model of the ChartTable component                         *)
(* (superset-frontend/src/views/CRUD/welcome/ChartTable.tsx).              *)
(*                                                                         *)
(* One mounted instance is modelled.  The initial states are the states    *)
(* after the first render (useState initial values, before the mount       *)
(* effect); the actions are the mount effect, the tab click handlers       *)
(* (handler, re-render and the effect on chartFilter, which React runs     *)
(* before it handles any other event), the completion of a listing fetch,  *)
(* the bulk-export handler and the export completion callback, the edit    *)
(* modal (open, save, dismiss) and the favorite toggle with its answers.   *)
(***************************************************************************)
EXTENDS Integers, Sequences, FiniteSets, TLC

\* ------------------------------------------------------------------ bounds
\* listing requests issued, exports started, edit modals opened and
\* favorite toggles, together
MaxOps == 3

\* --------------------------------------------------------------- constants
PAGE_SIZE == 3

FAVORITE == "Favorite"
MINE == "Mine"
EXAMPLES == "Examples"
TableTabTypes == {FAVORITE, MINE, EXAMPLES}

\* getFromLocalStorage(key, null) yields null when nothing is stored
Null == "null"
\* a stored string that is not a tab name
OtherStored == "Other"
StoredValues == {Null, FAVORITE, MINE, EXAMPLES, OtherStored}

\* before any tab has been clicked
NoSelection == "none"

\* ------------------------------------------------------------- input data
Chart(i, v) == [id |-> i, has_viz_type |-> v, slice_name |-> "a"]

\* the names the properties editor may give a chart
SliceNames == {"a", "b"}

\* props.examples: undefined, or an array of objects
NoExamples == [supplied |-> FALSE, items |-> <<>>]
ExamplesProps ==
  { NoExamples,
    [supplied |-> TRUE, items |-> <<>>],
    [supplied |-> TRUE, items |-> <<Chart(11, TRUE), Chart(12, FALSE)>>] }

\* props.mine
MineProps == { <<>>, <<Chart(21, TRUE)>> }

\* props.user: undefined, or a user with a numeric userId
NoUser == [present |-> FALSE, userId |-> 0]
UserProps == { NoUser, [present |-> TRUE, userId |-> 7] }

\* what the listing service may answer
Results == { <<>>, <<Chart(1, TRUE), Chart(2, TRUE)>> }

\* ---------------------------------------------------------------- state
VARIABLES
  examples,         \* props.examples
  mine,             \* props.mine
  user,             \* props.user
  storage,          \* value stored under HOMEPAGE_CHART_FILTER
  initialTab,       \* initialFilter at the first render
  chartFilter,      \* useState(initialFilter)
  preparingExport,  \* useState(false)
  loaded,           \* useState(false)
  loading,          \* useListViewResource state.loading
  charts,           \* useListViewResource state.resourceCollection
  inflight,         \* listing requests issued and not yet answered
  fetchCount,       \* number of listing requests issued so far
  dangerToasts,     \* number of addDangerToast calls
  successToasts,    \* number of addSuccessToast calls
  exportsPending,   \* exports whose completion callback has not fired
  exportCount,      \* number of bulk exports started so far
  sliceCurrentlyEditing, \* useChartEditModal: << >> (closed) or <<chart>>
  editCount,        \* number of times the edit modal was opened
  favoriteStatus,   \* useFavoriteStatus: the mapping id -> boolean
  togglesPending,   \* favorite toggles the backend has not yet answered
  toggleCount,      \* number of favorite toggles so far
  lastSelected,     \* name of the tab whose click handler ran last
  lastEvent         \* the operation that produced this state

vars == <<examples, mine, user, storage, initialTab, chartFilter, preparingExport, loaded,
          loading, charts, inflight, fetchCount, dangerToasts, successToasts,
          exportsPending, exportCount, sliceCurrentlyEditing, editCount,
          favoriteStatus, togglesPending, toggleCount, lastSelected, lastEvent>>

props == <<examples, mine, user>>

modal == <<sliceCurrentlyEditing, editCount>>

favorites == <<favoriteStatus, togglesPending, toggleCount>>

\* the number of requests issued and of operations started from the cards
Ops == fetchCount + exportCount + editCount + toggleCount

\* `tab` is the tab the operation was about; for a save from the edit
\* modal it is the name that was saved
Event(op, tab) == [op |-> op, tab |-> tab]

\* ------------------------------------------------------- pure definitions
\* lines 68-73
InitialFilter_NoFallback(filterStore, ex) ==
  IF filterStore # Null THEN filterStore ELSE EXAMPLES

InitialFilter(filterStore, ex) ==
  LET initialFilter == IF filterStore # Null THEN filterStore ELSE EXAMPLES
  IN  IF ~ex.supplied /\ filterStore = EXAMPLES THEN MINE ELSE initialFilter

\* line 75: filter(examples, obj => 'viz_type' in obj)
FilteredExamples(ex) == SelectSeq(ex.items, LAMBDA obj : obj.has_viz_type)

\* line 88: the default collection handed to useListViewResource
DefaultCollection_Unfiltered(tab, m, ex) ==
  IF tab = "Mine" THEN m ELSE ex.items

DefaultCollection(tab, m, ex) ==
  IF tab = "Mine" THEN m ELSE FilteredExamples(ex)

\* line 86: the error sink handed to useListViewResource
ListErrorSink_Success == "success"

ListErrorSink == "danger"

\* `${user?.userId}`
UserIdString(u) == IF u.present THEN ToString(u.userId) ELSE "undefined"

StringValue(s) == <<"string", s>>
BooleanValue(b) == <<"boolean", IF b THEN "true" ELSE "false">>

\* lines 125-142
GetFilters_FilterExamples(filterName, u) ==
  IF filterName = "Mine"
    THEN << [id |-> "created_by", operator |-> "rel_o_m",
             value |-> StringValue(UserIdString(u))] >>
    ELSE << [id |-> "id", operator |-> "chart_is_favorite",
             value |-> BooleanValue(TRUE)] >>

GetFilters(filterName, u) ==
  IF filterName = "Mine"
    THEN << [id |-> "created_by", operator |-> "rel_o_m",
             value |-> StringValue(UserIdString(u))] >>
    ELSE IF filterName = "Favorite"
      THEN << [id |-> "id", operator |-> "chart_is_favorite",
               value |-> BooleanValue(TRUE)] >>
      ELSE << >>

\* lines 174-185: the argument getData hands to fetchData
GetData(filter, u) ==
  [ pageIndex |-> 0,
    pageSize  |-> PAGE_SIZE,
    sortBy    |-> << [id |-> "changed_on_delta_humanized", desc |-> TRUE] >>,
    filters   |-> GetFilters(filter, u) ]

\* line 111: the condition of the effect
ShouldFetch_Always(ld, cf) == TRUE

ShouldFetch_LoadedOnly(ld, cf) == ld

ShouldFetch_FavoriteOnly(ld, cf) == cf = "Favorite"

ShouldFetch(ld, cf) == ld \/ cf = "Favorite"

\* lines 144-172: what each tab's onClick hands to setChartFilter and to
\* setInLocalStorage
OnClickMine_WrongStore == [setChartFilter |-> MINE, setInLocalStorage |-> FAVORITE]

OnClickMine_WrongKeep == [setChartFilter |-> MINE, setInLocalStorage |-> EXAMPLES]

OnClickFavorite == [setChartFilter |-> FAVORITE, setInLocalStorage |-> FAVORITE]

OnClickMine == [setChartFilter |-> MINE, setInLocalStorage |-> MINE]

OnClickExamples == [setChartFilter |-> EXAMPLES, setInLocalStorage |-> EXAMPLES]

OnClick(name) ==
  CASE name = "Favorite" -> OnClickFavorite
    [] name = "Mine"     -> OnClickMine
    [] name = "Examples" -> OnClickExamples

\* lines 144-172: the names of the tabs in menuTabs
MenuTabNames(ex) == {"Favorite", "Mine"} \cup (IF ex.supplied THEN {"Examples"} ELSE {})

\* line 187: the early return; the submenu and the cards exist only when
\* the component is not loading
ViewRendered_IgnoreLoading(ld) == TRUE

ViewRendered_Inverted(ld) == ld

ViewRendered(ld) == ~ld

\* lines 229-249: a ChartCard exists for every chart of a non-empty collection
CardsRendered == ViewRendered(loading) /\ Len(charts) > 0

\* line 97: the error sink handed to useFavoriteStatus
FavoriteErrorSink_Success == "success"

FavoriteErrorSink == "danger"

\* favoriteStatus[id] (line 244): << >> when the mapping has no entry
FavoriteEntry(status, id) == IF id \in DOMAIN status THEN <<status[id]>> ELSE << >>

\* lines 190-197: the edit modal exists when the view is rendered and a
\* chart is being edited
ModalRendered == ViewRendered(loading) /\ sliceCurrentlyEditing # << >>

\* lines 192-193: the callbacks wired to the PropertiesModal
ModalOnSave_Close == "closeChartEditModal"

ModalOnSave == "handleChartUpdated"

ModalOnHide == "closeChartEditModal"

\* lines 187-255: the elements the component renders
View_ExportReplaces(ld, slice, cs, pe) ==
  IF ld \/ pe THEN {"Loading"}
  ELSE (IF slice # << >> THEN {"PropertiesModal"} ELSE {})
       \cup {"SubMenu"}
       \cup (IF Len(cs) > 0 THEN {"CardContainer"} ELSE {"EmptyState"})

View(ld, slice, cs, pe) ==
  IF ld THEN {"Loading"}
  ELSE (IF slice # << >> THEN {"PropertiesModal"} ELSE {})
       \cup {"SubMenu"}
       \cup (IF Len(cs) > 0 THEN {"CardContainer"} ELSE {"EmptyState"})
       \cup (IF pe THEN {"ExportLoading"} ELSE {})

\* line 120: the value the export completion callback sets
ExportCallbackValue_Stuck == TRUE

ExportCallbackValue == FALSE

\* ----------------------------------------------------------------- Init
Init ==
  /\ examples \in ExamplesProps
  /\ mine \in MineProps
  /\ user \in UserProps
  /\ storage \in StoredValues
  /\ initialTab = InitialFilter(storage, examples)
  /\ chartFilter = initialTab
  /\ preparingExport = FALSE
  /\ loaded = FALSE
  /\ loading = FALSE
  /\ charts = DefaultCollection(initialTab, mine, examples)
  /\ inflight = {}
  /\ fetchCount = 0
  /\ dangerToasts = 0
  /\ successToasts = 0
  /\ exportsPending = {}
  /\ exportCount = 0
  /\ sliceCurrentlyEditing = << >>
  /\ editCount = 0
  /\ favoriteStatus = << >>
  /\ togglesPending = {}
  /\ toggleCount = 0
  /\ lastSelected = NoSelection
  /\ lastEvent = Event("render", chartFilter)

\* --------------------------------------------------------------- actions
\* fetchData of useListViewResource: marks the view loading and sends the
\* request; `filter` is the argument of getData and `before` the collection
\* at the time of the call
FetchData(filter) ==
  /\ Ops < MaxOps
  /\ fetchCount' = fetchCount + 1
  /\ inflight' = inflight \cup
       {[id |-> fetchCount + 1, filter |-> filter, before |-> charts,
         config |-> GetData(filter, user)]}
  /\ loading' = TRUE

\* lines 110-115: the effect, run for the value cf of chartFilter
UseEffect(cf) ==
  /\ IF ShouldFetch(loaded, cf)
       THEN FetchData(cf)
       ELSE UNCHANGED <<fetchCount, inflight, loading>>
  /\ loaded' = TRUE

\* the effect after the first render
MountEffect_PersistsFallback ==
  /\ ~loaded
  /\ UseEffect(chartFilter)
  /\ storage' = chartFilter
  /\ lastEvent' = Event("effect", chartFilter)
  /\ UNCHANGED <<props, initialTab, favorites, modal, chartFilter, preparingExport, charts,
                 dangerToasts, successToasts, exportsPending, exportCount,
                 lastSelected>>

MountEffect ==
  /\ ~loaded
  /\ UseEffect(chartFilter)
  /\ lastEvent' = Event("effect", chartFilter)
  /\ UNCHANGED <<props, initialTab, favorites, modal, storage, chartFilter, preparingExport, charts,
                 dangerToasts, successToasts, exportsPending, exportCount,
                 lastSelected>>

\* lines 144-172: a click on the tab `name` of the submenu; the effect runs
\* only when chartFilter changes
ClickTab(name) ==
  /\ loaded
  /\ ViewRendered(loading)
  /\ name \in MenuTabNames(examples)
  /\ chartFilter' = OnClick(name).setChartFilter
  /\ storage' = OnClick(name).setInLocalStorage
  /\ IF chartFilter' # chartFilter
       THEN UseEffect(chartFilter')
       ELSE UNCHANGED <<fetchCount, inflight, loading, loaded>>
  /\ lastSelected' = name
  /\ lastEvent' = Event("click", name)
  /\ UNCHANGED <<props, initialTab, favorites, modal, preparingExport, charts, dangerToasts, successToasts,
                 exportsPending, exportCount>>

\* the listing service answers request r with a collection
FetchSucceeds(r, result) ==
  /\ r \in inflight
  /\ inflight' = inflight \ {r}
  /\ charts' = result
  /\ loading' = FALSE
  /\ lastEvent' = Event("fetchOk", r.filter)
  /\ UNCHANGED <<props, initialTab, favorites, modal, storage, chartFilter, preparingExport, loaded,
                 fetchCount, dangerToasts, successToasts, exportsPending,
                 exportCount, lastSelected>>

\* the listing request r fails
FetchFails(r) ==
  /\ r \in inflight
  /\ inflight' = inflight \ {r}
  /\ dangerToasts' = dangerToasts + (IF ListErrorSink = "danger" THEN 1 ELSE 0)
  /\ successToasts' = successToasts + (IF ListErrorSink = "success" THEN 1 ELSE 0)
  /\ loading' = FALSE
  /\ lastEvent' = Event("fetchFail", r.filter)
  /\ UNCHANGED <<props, initialTab, favorites, modal, storage, chartFilter, preparingExport, loaded, charts,
                 fetchCount, exportsPending, exportCount, lastSelected>>

\* lines 117-123: a card asks for the export of chartsToExport
HandleBulkChartExport(chartsToExport) ==
  /\ loaded
  /\ CardsRendered
  /\ Ops < MaxOps
  /\ LET ids == [i \in 1..Len(chartsToExport) |-> chartsToExport[i].id]
     IN  exportsPending' = exportsPending \cup {[n |-> exportCount + 1, ids |-> ids]}
  /\ exportCount' = exportCount + 1
  /\ preparingExport' = TRUE
  /\ lastEvent' = Event("export", chartFilter)
  /\ UNCHANGED <<props, initialTab, favorites, modal, storage, chartFilter, loaded, loading, charts, inflight,
                 fetchCount, dangerToasts, successToasts, lastSelected>>

\* lines 119-121: the completion callback of export e
ExportDone(e) ==
  /\ e \in exportsPending
  /\ exportsPending' = exportsPending \ {e}
  /\ preparingExport' = ExportCallbackValue
  /\ lastEvent' = Event("exportDone", chartFilter)
  /\ UNCHANGED <<props, initialTab, favorites, modal, storage, chartFilter, loaded, loading, charts, inflight,
                 fetchCount, dangerToasts, successToasts, exportCount,
                 lastSelected>>

\* useChartEditModal.openChartEditModal, called by a card (line 234)
OpenChartEditModal(chart) ==
  /\ loaded
  /\ CardsRendered
  /\ Ops < MaxOps
  /\ sliceCurrentlyEditing' = <<chart>>
  /\ editCount' = editCount + 1
  /\ lastEvent' = Event("openEdit", chartFilter)
  /\ UNCHANGED <<props, initialTab, favorites, storage, chartFilter, preparingExport, loaded, loading,
                 charts, inflight, fetchCount, dangerToasts, successToasts,
                 exportsPending, exportCount, lastSelected>>

\* useChartEditModal.handleChartUpdated: replaces the entry with the id of
\* `edits` and closes the modal
HandleChartUpdated(edits) ==
  /\ charts' = [i \in 1..Len(charts) |->
                  IF charts[i].id = edits.id THEN edits ELSE charts[i]]
  /\ sliceCurrentlyEditing' = << >>

\* useChartEditModal.closeChartEditModal
CloseChartEditModal ==
  /\ sliceCurrentlyEditing' = << >>
  /\ UNCHANGED charts

ModalCallback(name, edits) ==
  CASE name = "handleChartUpdated"  -> HandleChartUpdated(edits)
    [] name = "closeChartEditModal" -> CloseChartEditModal

\* line 193: the properties editor saves the chart with a name
ModalSave(name) ==
  /\ ModalRendered
  /\ ModalCallback(ModalOnSave, [sliceCurrentlyEditing[1] EXCEPT !.slice_name = name])
  /\ lastEvent' = Event("saveEdit", name)
  /\ UNCHANGED <<props, initialTab, favorites, editCount, storage, chartFilter, preparingExport, loaded,
                 loading, inflight, fetchCount, dangerToasts, successToasts,
                 exportsPending, exportCount, lastSelected>>

\* line 192: the properties editor is dismissed
ModalHide ==
  /\ ModalRendered
  /\ ModalCallback(ModalOnHide, sliceCurrentlyEditing[1])
  /\ lastEvent' = Event("closeEdit", chartFilter)
  /\ UNCHANGED <<props, initialTab, favorites, editCount, storage, chartFilter, preparingExport, loaded,
                 loading, inflight, fetchCount, dangerToasts, successToasts,
                 exportsPending, exportCount, lastSelected>>

\* useFavoriteStatus.saveFavoriteStatus, called by the card of chart `id`
\* (line 245): the mapping is updated at once and the backend is asked
SaveFavoriteStatus(id, isFavorite) ==
  /\ loaded
  /\ CardsRendered
  /\ Ops < MaxOps
  /\ favoriteStatus' = [i \in DOMAIN favoriteStatus \cup {id} |->
                          IF i = id THEN isFavorite ELSE favoriteStatus[i]]
  /\ togglesPending' = togglesPending \cup
       {[n |-> toggleCount + 1, id |-> id, value |-> isFavorite,
         prior |-> FavoriteEntry(favoriteStatus, id)]}
  /\ toggleCount' = toggleCount + 1
  /\ lastEvent' = Event("toggle", chartFilter)
  /\ UNCHANGED <<props, initialTab, modal, storage, chartFilter, preparingExport,
                 loaded, loading, charts, inflight, fetchCount, dangerToasts,
                 successToasts, exportsPending, exportCount, lastSelected>>

\* the backend has stored toggle p
ToggleSucceeds(p) ==
  /\ p \in togglesPending
  /\ togglesPending' = togglesPending \ {p}
  /\ lastEvent' = Event("toggleOk", chartFilter)
  /\ UNCHANGED <<props, initialTab, modal, storage, chartFilter, preparingExport,
                 loaded, loading, charts, inflight, fetchCount, dangerToasts,
                 successToasts, exportsPending, exportCount, lastSelected,
                 favoriteStatus, toggleCount>>

\* the backend reports that toggle p failed: the entry of p.id goes back to
\* its prior value and the error is notified
ToggleFails(p) ==
  /\ p \in togglesPending
  /\ togglesPending' = togglesPending \ {p}
  /\ favoriteStatus' =
       IF p.prior = << >>
         THEN [i \in DOMAIN favoriteStatus \ {p.id} |-> favoriteStatus[i]]
         ELSE [i \in DOMAIN favoriteStatus \cup {p.id} |->
                 IF i = p.id THEN p.prior[1] ELSE favoriteStatus[i]]
  /\ dangerToasts' = dangerToasts + (IF FavoriteErrorSink = "danger" THEN 1 ELSE 0)
  /\ successToasts' = successToasts + (IF FavoriteErrorSink = "success" THEN 1 ELSE 0)
  /\ lastEvent' = Event("toggleFail", chartFilter)
  /\ UNCHANGED <<props, initialTab, modal, storage, chartFilter, preparingExport,
                 loaded, loading, charts, inflight, fetchCount, exportsPending,
                 exportCount, lastSelected, toggleCount>>

ExportInputs == {<<charts[i]>> : i \in 1..Len(charts)} \cup {charts}

Next ==
  \/ MountEffect
  \/ \E name \in TableTabTypes : ClickTab(name)
  \/ \E r \in inflight : \E result \in Results : FetchSucceeds(r, result)
  \/ \E r \in inflight : FetchFails(r)
  \/ \E chartsToExport \in ExportInputs : HandleBulkChartExport(chartsToExport)
  \/ \E e \in exportsPending : ExportDone(e)
  \/ \E i \in 1..Len(charts) : OpenChartEditModal(charts[i])
  \/ \E name \in SliceNames : ModalSave(name)
  \/ ModalHide
  \/ \E i \in 1..Len(charts) : \E isFavorite \in BOOLEAN :
       SaveFavoriteStatus(charts[i].id, isFavorite)
  \/ \E p \in togglesPending : ToggleSucceeds(p)
  \/ \E p \in togglesPending : ToggleFails(p)

Spec == Init /\ [][Next]_vars

\* ------------------------------------------------------------ properties
FavoriteFilters ==
  << [id |-> "id", operator |-> "chart_is_favorite", value |-> BooleanValue(TRUE)] >>

OwnerFilters ==
  << [id |-> "created_by", operator |-> "rel_o_m",
      value |-> StringValue(IF user.present THEN ToString(user.userId)
                                            ELSE "undefined")] >>

C2_PersistedEqualsSelected ==
  lastSelected # NoSelection =>
    /\ storage = lastSelected
    /\ chartFilter = lastSelected

C2_Witness ==
  /\ lastEvent.op = "click"
  /\ lastSelected = MINE
  /\ storage = MINE
  /\ fetchCount >= 2

\* C3: every step that makes Favorite the tab the effect runs for (the mount
\* effect with Favorite as the initial tab, or a switch to Favorite from
\* another tab) issues a new listing request with the Favorite filter.
C3_FavoriteAlwaysFetches ==
  [][ ( /\ chartFilter' = FAVORITE
        /\ \/ ~loaded /\ loaded'
           \/ chartFilter # FAVORITE )
      => \E r \in inflight' \ inflight :
            /\ r.filter = FAVORITE
            /\ r.config.filters = FavoriteFilters ]_vars

C3_Witness ==
  /\ lastEvent = Event("click", FAVORITE)
  /\ loading
  /\ \E r \in inflight : r.filter = FAVORITE /\ r.config.filters = FavoriteFilters
  /\ fetchCount >= 2

\* C4: as long as no tab has been selected and the initial tab is not
\* Favorite, no listing request has been issued: the mount effect issues
\* none, and the first one needs a tab change.
C4_NoFetchAtMount ==
  (lastSelected = NoSelection /\ chartFilter # FAVORITE) =>
    /\ fetchCount = 0
    /\ inflight = {}
    /\ ~loading

C4_Witness ==
  /\ lastEvent.op = "effect"
  /\ loaded
  /\ chartFilter = MINE
  /\ fetchCount = 0

\* C5: until a tab is selected, the active tab is Mine when no examples are
\* supplied and "Examples" is stored, and is the stored value in every
\* other case with a non-empty stored value.
C5_InitialTab ==
  lastSelected = NoSelection =>
    IF ~examples.supplied /\ storage = EXAMPLES
      THEN chartFilter = MINE
      ELSE storage # Null => chartFilter = storage

C5_Witness ==
  /\ lastEvent.op = "effect"
  /\ ~examples.supplied
  /\ storage = EXAMPLES
  /\ chartFilter = MINE

\* C6 (as stated): a click on the tab that is already active leaves the
\* persisted value unchanged.
C6_SelectActiveKeepsStorage ==
  [][ (lastEvent'.op = "click" /\ lastEvent'.tab = chartFilter)
      => storage' = storage ]_vars

\* C6 (amended): a click on the tab that is already active leaves the
\* persisted value unchanged whenever the persisted value equals the active
\* tab's name, which is the case after every tab selection.
C6_SelectActiveKeepsStorageOnceSelected ==
  [][ ( /\ lastEvent'.op = "click"
        /\ lastEvent'.tab = chartFilter
        /\ (storage = chartFilter \/ lastSelected # NoSelection) )
      => storage' = storage ]_vars

\* a click that leaves the view not loading was a click on the active tab
C6_Witness ==
  /\ lastEvent.op = "click"
  /\ ~loading
  /\ lastEvent.tab = chartFilter
  /\ storage = chartFilter
  /\ fetchCount >= 1

\* C7: preparingExport is true as long as some export's completion callback
\* has not fired, and is false right after a completion callback.
C7_FlagTrueUntilCallback ==
  /\ \A e \in exportsPending : preparingExport
  /\ lastEvent.op = "exportDone" => ~preparingExport

\* C8: preparingExport is true only while the completion callback of at
\* least one export has not fired.
C8_FlagOnlyWhileOutstanding ==
  preparingExport => exportsPending # {}

C8_Witness ==
  /\ preparingExport
  /\ exportsPending # {}
  /\ lastEvent.op = "export"

\* C9: every listing request asks for page 0, page size 3, sorted by
\* last-modified descending, with filters determined by the tab alone.
C9_RequestShape ==
  \A r \in inflight :
    /\ r.config.pageIndex = 0
    /\ r.config.pageSize = 3
    /\ r.config.sortBy = << [id |-> "changed_on_delta_humanized", desc |-> TRUE] >>
    /\ r.filter = MINE => r.config.filters = OwnerFilters
    /\ r.filter = FAVORITE => r.config.filters = FavoriteFilters
    /\ r.filter \notin {MINE, FAVORITE} => r.config.filters = << >>

C9_Witness ==
  /\ \E r \in inflight : r.filter = EXAMPLES /\ r.config.filters = << >>
  /\ fetchCount >= 2

\* C10: when a listing request fails, the collection is the one from before
\* the request was issued, one error notification is emitted, and loading
\* is cleared so that the view is rendered again.
C10_FetchFailure ==
  [][ \A r \in inflight :
        (r \notin inflight' /\ lastEvent'.op = "fetchFail")
        => /\ charts' = r.before
           /\ dangerToasts' = dangerToasts + 1
           /\ ~loading'
           /\ ViewRendered(loading') ]_vars

C10_Witness ==
  /\ lastEvent.op = "fetchFail"
  /\ dangerToasts >= 1
  /\ ~loading
  /\ Len(charts) > 0

\* C13: once the mount effect has run, every step that changes the active
\* tab issues exactly one listing request, and that request carries the
\* filter of the new tab.
C13_TabChangeFetchesOnce ==
  [][ (loaded /\ chartFilter' # chartFilter)
      => /\ fetchCount' = fetchCount + 1
         /\ \E r \in inflight' :
              /\ inflight' \ inflight = {r}
              /\ r.filter = chartFilter'
              /\ r.config.filters =
                   (IF chartFilter' = MINE THEN OwnerFilters
                    ELSE IF chartFilter' = FAVORITE THEN FavoriteFilters
                    ELSE << >>) ]_vars

C13_Witness ==
  /\ lastEvent = Event("click", MINE)
  /\ loading
  /\ \E r \in inflight : r.filter = MINE /\ r.config.filters = OwnerFilters
  /\ fetchCount = 2

\* C16: the active tab is one of the tabs of the submenu: Favorite or Mine,
\* or Examples when examples are supplied.
C16_ActiveTabIsOffered ==
  \/ chartFilter \in {FAVORITE, MINE}
  \/ chartFilter = EXAMPLES /\ examples.supplied

\* C17: a tab's click handler runs only when no listing request is
\* outstanding, and at most one listing request is outstanding.
C17_OneFetchOutstanding ==
  [][ /\ lastEvent'.op = "click" => inflight = {}
      /\ Cardinality(inflight') <= 1 ]_vars

C17_Witness ==
  /\ lastEvent.op = "click"
  /\ Cardinality(inflight) = 1
  /\ loading
  /\ fetchCount >= 2

\* C18: when exports overlap, preparingExport stays true as long as the
\* completion callback of some export has still to fire.
C18_FlagStaysWhileOutstanding ==
  [][ (preparingExport /\ exportsPending' # {}) => preparingExport' ]_vars

\* C19: only the tab click handlers change the persisted value.
C19_OnlyClicksWriteStorage ==
  [][ storage' # storage => lastEvent'.op = "click" ]_vars

\* the Examples-to-Mine fallback at mount has left "Examples" stored, and
\* fetches and exports have happened since
C19_Witness ==
  /\ storage = EXAMPLES
  /\ chartFilter = MINE
  /\ loaded
  /\ lastSelected = NoSelection
  /\ exportCount >= 1

\* C11: a save from the edit modal replaces exactly the entries with the id
\* of the edited chart by the saved chart, keeps every other entry and the
\* order, and closes the modal; dismissing the modal leaves the collection
\* unchanged.
C11_SaveReplacesMatchingEntry ==
  [][ /\ lastEvent'.op = "saveEdit" =>
           /\ sliceCurrentlyEditing' = << >>
           /\ Len(charts') = Len(charts)
           /\ \A i \in 1..Len(charts) :
                IF charts[i].id = sliceCurrentlyEditing[1].id
                  THEN charts'[i] = [sliceCurrentlyEditing[1]
                                       EXCEPT !.slice_name = lastEvent'.tab]
                  ELSE charts'[i] = charts[i]
      /\ lastEvent'.op = "closeEdit" =>
           /\ sliceCurrentlyEditing' = << >>
           /\ charts' = charts ]_vars

C11_Witness ==
  /\ lastEvent = Event("saveEdit", "b")
  /\ sliceCurrentlyEditing = << >>
  /\ Len(charts) = 2
  /\ charts[1].slice_name = "a"
  /\ charts[2].slice_name = "b"

\* C14: while loading, only the loading indicator is rendered; when not
\* loading and exporting, the export indicator is rendered together with
\* the submenu and the card grid or the empty state.
C14_LoadingReplacesExportOverlays ==
  LET view == View(loading, sliceCurrentlyEditing, charts, preparingExport)
  IN  /\ loading => view = {"Loading"}
      /\ (~loading /\ preparingExport) =>
           /\ {"ExportLoading", "SubMenu"} \subseteq view
           /\ "CardContainer" \in view \/ "EmptyState" \in view

C14_Witness ==
  /\ ~loading
  /\ preparingExport
  /\ sliceCurrentlyEditing # << >>
  /\ fetchCount >= 1

ExamplesWithVizType == SelectSeq(examples.items, LAMBDA obj : obj.has_viz_type)

SuppliedDefault == IF initialTab = MINE THEN mine ELSE ExamplesWithVizType

\* C15 (as stated): with nothing stored and examples supplied, the tab is
\* Examples until a tab is selected and the mount effect issues no request;
\* before any listing request has been answered, the collection is the
\* supplied `mine` list when the initial tab is Mine and the supplied
\* examples that have a viz_type otherwise.
C15_DefaultCollection ==
  /\ (lastSelected = NoSelection /\ storage = Null /\ examples.supplied) =>
       /\ chartFilter = EXAMPLES
       /\ fetchCount = 0
  /\ fetchCount = Cardinality(inflight) => charts = SuppliedDefault

\* C15 (amended): as above, except that entries saved from the edit modal
\* are replaced in the supplied list: same ids in the same order, and every
\* entry equal to the supplied one up to the edited name.
C15_DefaultCollectionUpToEdits ==
  /\ (lastSelected = NoSelection /\ storage = Null /\ examples.supplied) =>
       /\ chartFilter = EXAMPLES
       /\ fetchCount = 0
  /\ fetchCount = Cardinality(inflight) =>
       /\ Len(charts) = Len(SuppliedDefault)
       /\ \A i \in 1..Len(charts) :
            \E name \in SliceNames :
              charts[i] = [SuppliedDefault[i] EXCEPT !.slice_name = name]
       /\ editCount = 0 => charts = SuppliedDefault

C15_Witness ==
  /\ lastEvent.op = "effect"
  /\ storage = Null
  /\ examples.supplied
  /\ chartFilter = EXAMPLES
  /\ fetchCount = 0
  /\ Len(examples.items) = 2
  /\ Len(charts) = 1

\* every chart id of the model
AllChartIds == {1, 2, 11, 12, 21}

\* C12: a favorite toggle on chart X sets X's entry at once and changes no
\* other entry; when the backend reports failure, X's entry is the one
\* from before the toggle again, one error is notified, and no other entry
\* changes.
C12_ToggleAndRollback ==
  [][ /\ lastEvent'.op = "toggle" =>
           \E p \in togglesPending' \ togglesPending :
             /\ FavoriteEntry(favoriteStatus', p.id) = <<p.value>>
             /\ p.prior = FavoriteEntry(favoriteStatus, p.id)
             /\ \A y \in AllChartIds \ {p.id} :
                  FavoriteEntry(favoriteStatus', y) = FavoriteEntry(favoriteStatus, y)
      /\ lastEvent'.op = "toggleFail" =>
           \E p \in togglesPending \ togglesPending' :
             /\ FavoriteEntry(favoriteStatus', p.id) = p.prior
             /\ dangerToasts' = dangerToasts + 1
             /\ \A y \in AllChartIds \ {p.id} :
                  FavoriteEntry(favoriteStatus', y) = FavoriteEntry(favoriteStatus, y) ]_vars

\* a toggle on chart 2 has failed and chart 1's entry, set by another
\* toggle, is still there
C12_Witness ==
  /\ lastEvent.op = "toggleFail"
  /\ FavoriteEntry(favoriteStatus, 1) = <<TRUE>>
  /\ FavoriteEntry(favoriteStatus, 2) = << >>
  /\ dangerToasts >= 1

====
